---- MODULE Spec2Model ----
(***************************************************************************)
(* Model of the real-time dashboard synchronisation core of                *)
(* odoo_shopify_automation/static/src/js/dashboard.js (class               *)
(* ShopifyDashboard): polling, the WebSocket reconnect chain, the typed    *)
(* event handlers, the notification list and the sales chart series.       *)
(*                                                                         *)
(* The lifecycle methods onWillStart / onMounted / willUnmount are taken   *)
(* to be invoked by the framework at the lifecycle points they are named   *)
(* after.  JavaScript is single threaded: every action below is one task   *)
(* of the event loop (a handler run to completion or to its next await).   *)
(***************************************************************************)
EXTENDS Integers, Sequences, FiniteSets, TLC

\* ------------------------------------------------------------------ bounds
MaxClock == 1
MaxPush == 11
MaxClicks == 2
MaxAppend == 21
MaxSnapLen == 21
MaxFetch == 3
MaxSockets == 3
MaxEvents == 2
MaxFrames == 3
MaxPolls == 4
MaxTeardowns == 2
MaxKey == 2
MaxRenders == 3

\* ------------------------------------------------------- program constants
MaxNotifications == 10
MaxPoints == 20

\* JavaScript's undefined and NaN, encoded below every number of the model.
UNDEFINED == -1
NAN == -2

IsNumber(v) == v >= 0

\* v++ on a field: undefined++ and NaN++ both store NaN.
Increment(v) == IF IsNumber(v) THEN v + 1 ELSE NAN

CounterNames == {"order_count", "customer_count", "error_count"}

VARIABLES
    phase,          \* lifecycle position of the component
    loading,        \* state.loading
    realTimeData,   \* state.realTimeData: the three counters
    systemHealth,   \* state.systemHealth
    notifications,  \* state.notifications, index 1 is JS index 0
    expiryTimers,   \* pending setTimeout callbacks of addNotification, FIFO
    nPushed,        \* number of notification objects created so far
    hasChart,       \* chartInstances.has('sales')
    labels,         \* salesChart.data.labels
    data,           \* salesChart.data.datasets[0].data
    appended,       \* history: the amounts pushed by updateSalesChart
    replaced,       \* history: updateCharts has replaced the series
    updateInterval, \* the 30 s interval is active
    fetches,        \* get_dashboard_data calls in issue order
    toasts,         \* number of notification.add("Failed to load ...") calls
    sockets,        \* the WebSocket objects created so far, in creation order
    reconnectTimers,\* pending setTimeout(() => this.setupWebSocket(), 5000)
    srv,            \* the server's own counters
    lastSnapshot,   \* history: counters of the snapshot applied last
    evSeen,         \* history: events counted that lastSnapshot does not contain
    clicks,         \* number of close-button clicks so far
    now,            \* Date.now()
    received,       \* history: the frames handed to ws.onmessage: type, payload?, fields
    handled,        \* history: the handlers handleRealTimeUpdate has called
    uncaught,       \* number of exceptions that left an event-loop task uncaught
    teardowns,      \* number of willUnmount calls so far
    newestDone,     \* history: the latest issued call that resolved, its counters
    isLoading,      \* AbstractDashboardComponent: state.isLoading
    rawData,        \* AbstractDashboardComponent: state.rawData, as the number
                    \* of the fetch whose response it is; 0 is the initial {}
    panelFetches,   \* AbstractDashboardComponent: the fetches of updateRawData
    updateKey,      \* IntegrationDashboard: state.updateKey, a prop of the panel
    effectKey,      \* the updateKey the effect of _triggerUpdate ran for last
    isLoaded,       \* IntegrationStatusMenu: state.isLoaded
    menuCalls,      \* IntegrationStatusMenu: the calls made by onWillRender
    renders         \* IntegrationStatusMenu: number of renders so far

vars == <<phase, loading, realTimeData, systemHealth, notifications,
          expiryTimers, nPushed, hasChart, labels, data, appended, replaced,
          updateInterval, fetches, toasts, sockets, reconnectTimers, srv,
          lastSnapshot, evSeen, clicks, now, received, handled, uncaught,
          teardowns, newestDone, isLoading, rawData, panelFetches, updateKey,
          effectKey, isLoaded, menuCalls, renders>>

notifVars == <<notifications, expiryTimers, nPushed>>
chartVars == <<hasChart, labels, data, appended, replaced>>
wsVars == <<sockets, reconnectTimers>>
histVars == <<lastSnapshot, evSeen, newestDone>>
logVars == <<received, handled, uncaught, teardowns>>
panelVars == <<isLoading, rawData, panelFetches, updateKey, effectKey>>
menuVars == <<isLoaded, menuCalls, renders>>
integrationVars == <<panelVars, menuVars>>
dashboardVars == <<phase, loading, realTimeData, systemHealth, notifVars,
                   chartVars, updateInterval, fetches, toasts, wsVars, srv,
                   histVars, clicks, now, logVars>>

\* ------------------------------------------------------------ construction
EmptyData == [c \in CounterNames |-> UNDEFINED]

\* systemHealth: {} has no metric.
EmptyHealth == [m \in {} |-> 0]

Init ==
    /\ phase = "setup"
    /\ loading = FALSE
    /\ realTimeData = EmptyData
    /\ systemHealth = EmptyHealth
    /\ notifications = <<>>
    /\ expiryTimers = <<>>
    /\ nPushed = 0
    /\ hasChart = FALSE
    /\ labels = <<>>
    /\ data = <<>>
    /\ appended = <<>>
    /\ replaced = FALSE
    /\ updateInterval = FALSE
    /\ fetches = <<>>
    /\ toasts = 0
    /\ sockets = <<>>
    /\ reconnectTimers = 0
    /\ srv = [c \in CounterNames |-> 0]
    /\ lastSnapshot = EmptyData
    /\ evSeen = [c \in CounterNames |-> {}]
    /\ clicks = 0
    /\ now = 0
    /\ received = <<>>
    /\ handled = <<>>
    /\ uncaught = 0
    /\ teardowns = 0
    /\ newestDone = [issue |-> 0, counters |-> EmptyData]
    \* AbstractDashboardComponent.setup has called updateRawData
    /\ isLoading = TRUE
    /\ rawData = 0
    /\ panelFetches = <<"sent">>
    /\ updateKey = 0
    /\ effectKey = UNDEFINED
    \* IntegrationStatusMenu.setup
    /\ isLoaded = FALSE
    /\ menuCalls = <<>>
    /\ renders = 0

\* --------------------------------------------------------- notifications
\* The object literal a handler passes to addNotification: it has no id.
Notice(type, title) == [type |-> type, title |-> title, id |-> UNDEFINED]

\* A truncation that keeps the wrong end: slice(-10).
KeepLast(list) ==
    IF Len(list) > MaxNotifications
    THEN SubSeq(list, Len(list) - MaxNotifications + 1, Len(list))
    ELSE list

\* slice(0, 10) of a too long list.
KeepFirst(list) ==
    IF Len(list) > MaxNotifications THEN SubSeq(list, 1, MaxNotifications) ELSE list

\* addNotification, the list: unshift({...notification, id: Date.now()}), then
\* the truncation.  obj is the identity of the object created by the literal.
AddNotificationList(list, notification, t, o) ==
    KeepFirst(<<[type |-> notification.type, title |-> notification.title,
                 id |-> t, obj |-> o]>> \o list)

\* addNotification, the timer: the callback closes over the ARGUMENT and
\* reads notification.id when it fires.
AddNotificationTimer(timers, notification, o) ==
    Append(timers, [arg |-> notification.id, obj |-> o])

\* findIndex(n => n.id === notificationId): 0 when there is none.
FindIndex(list, notificationId) ==
    IF \E i \in 1..Len(list) : list[i].id = notificationId
    THEN CHOOSE i \in 1..Len(list) :
            /\ list[i].id = notificationId
            /\ \A j \in 1..(i - 1) : list[j].id # notificationId
    ELSE 0

\* removeNotification: splice(index, 1) when the id is found.
RemoveNotification(list, notificationId) ==
    LET index == FindIndex(list, notificationId) IN
    IF index > 0
    THEN SubSeq(list, 1, index - 1) \o SubSeq(list, index + 1, Len(list))
    ELSE list

\* addNotification as a state change.
AddNotification(notification) ==
    /\ nPushed' = nPushed + 1
    /\ notifications' = AddNotificationList(notifications, notification, now, nPushed + 1)
    /\ expiryTimers' = AddNotificationTimer(expiryTimers, notification, nPushed + 1)

\* The oldest pending expiry timer fires (equal delays fire in FIFO order).
ExpiryTimerFires ==
    /\ expiryTimers # <<>>
    /\ notifications' = RemoveNotification(notifications, Head(expiryTimers).arg)
    /\ expiryTimers' = Tail(expiryTimers)
    /\ UNCHANGED <<logVars, phase, loading, realTimeData, systemHealth, nPushed,
                   chartVars, updateInterval, fetches, toasts, wsVars, srv,
                   histVars, clicks, now>>
    /\ UNCHANGED integrationVars

\* The document click listener of setupEventListeners: a click on a close
\* button whose data-notification-id parses to notificationId.
CloseClick(notificationId) ==
    /\ phase = "mounted"
    /\ clicks' = clicks + 1
    /\ notifications' = RemoveNotification(notifications, notificationId)
    /\ UNCHANGED <<logVars, phase, loading, realTimeData, systemHealth, expiryTimers,
                   nPushed, chartVars, updateInterval, fetches, toasts, wsVars,
                   srv, histVars, now>>
    /\ UNCHANGED integrationVars

\* The wall clock advances by one millisecond.
Tick ==
    /\ now' = now + 1
    /\ UNCHANGED <<logVars, phase, loading, realTimeData, systemHealth, notifVars,
                   chartVars, updateInterval, fetches, toasts, wsVars, srv,
                   histVars, clicks>>
    /\ UNCHANGED integrationVars

\* ----------------------------------------------------------- sales chart
\* now.toLocaleTimeString(): the time of day to the second.
TimeLabel(t) == (t \div 1000) % 86400

NoSales == [present |-> FALSE, labels |-> <<>>, values |-> <<>>]

\* A sales_chart_data of n points, labels and values equally long.
SalesOf(n) == [present |-> TRUE,
               labels |-> [i \in 1..n |-> i],
               values |-> [i \in 1..n |-> 100 + i]]

\* A window whose labels are never evicted.
UnshiftedLabels(ls, timeLabel) == Append(ls, timeLabel)

\* updateSalesChart: push, then shift() once when labels.length > 20.
ShiftedLabels(ls, timeLabel) ==
    LET l == Append(ls, timeLabel) IN
    IF Len(l) > MaxPoints THEN Tail(l) ELSE l

\* A window that evicts at the wrong end: pop() instead of shift().
PoppedData(ls, ds, amount) ==
    LET l == Append(ls, 0)
        d == Append(ds, amount) IN
    IF Len(l) > MaxPoints THEN SubSeq(d, 1, Len(d) - 1) ELSE d

ShiftedData(ls, ds, amount) ==
    LET l == Append(ls, 0)
        d == Append(ds, amount) IN
    IF Len(l) > MaxPoints THEN Tail(d) ELSE d

UpdateSalesChart(orderData) ==
    IF hasChart
    THEN /\ labels' = ShiftedLabels(labels, TimeLabel(now))
         /\ data' = ShiftedData(labels, data, orderData.amount)
         /\ appended' = Append(appended, orderData.amount)
         /\ UNCHANGED <<hasChart, replaced>>
    ELSE UNCHANGED chartVars

\* updateCharts: the arrays of the snapshot become the arrays of the chart.
ReplacedSeries(old, new) == new

UpdateCharts(snapshot) ==
    IF hasChart /\ snapshot.sales.present
    THEN /\ labels' = ReplacedSeries(labels, snapshot.sales.labels)
         /\ data' = ReplacedSeries(data, snapshot.sales.values)
         /\ replaced' = TRUE
         /\ UNCHANGED <<hasChart, appended>>
    ELSE UNCHANGED chartVars

\* ------------------------------------------------------------- web socket
\* new WebSocket(...) with its four handlers.
SetupWebSocket == sockets' = Append(sockets, "connecting")

WsOpen(s) ==
    /\ s \in 1..Len(sockets)
    /\ sockets[s] = "connecting"
    /\ sockets' = [sockets EXCEPT ![s] = "open"]
    /\ UNCHANGED <<logVars, phase, loading, realTimeData, systemHealth, notifVars,
                   chartVars, updateInterval, fetches, toasts, reconnectTimers,
                   srv, histVars, clicks, now>>
    /\ UNCHANGED integrationVars

\* An onerror that schedules a retry of its own.
OnErrorRetry(n) == n + 1

\* What ws.onerror adds to the pending reconnect timers: it only logs.
OnErrorTimers(n) == n

\* An onclose that only logs.
OnCloseNoRetry(n) == n

\* What ws.onclose adds: setTimeout(() => this.setupWebSocket(), 5000).
OnCloseTimers(n) == n + 1

\* The error event; the browser closes a socket that has failed, so the
\* close event is still to come.
WsError(s) ==
    /\ s \in 1..Len(sockets)
    /\ sockets[s] \in {"connecting", "open"}
    /\ sockets' = [sockets EXCEPT ![s] = "failing"]
    /\ reconnectTimers' = OnErrorTimers(reconnectTimers)
    /\ UNCHANGED <<logVars, phase, loading, realTimeData, systemHealth, notifVars,
                   chartVars, updateInterval, fetches, toasts, srv, histVars,
                   clicks, now>>
    /\ UNCHANGED integrationVars

\* The close event: after an error, or when the peer ends an open channel.
WsClose(s) ==
    /\ s \in 1..Len(sockets)
    /\ sockets[s] \in {"open", "failing"}
    /\ sockets' = [sockets EXCEPT ![s] = "closed"]
    /\ reconnectTimers' = OnCloseTimers(reconnectTimers)
    /\ UNCHANGED <<logVars, phase, loading, realTimeData, systemHealth, notifVars,
                   chartVars, updateInterval, fetches, toasts, srv, histVars,
                   clicks, now>>
    /\ UNCHANGED integrationVars

\* A reconnect timer fires and runs setupWebSocket.
ReconnectTimerFires ==
    /\ reconnectTimers > 0
    /\ reconnectTimers' = reconnectTimers - 1
    /\ SetupWebSocket
    /\ UNCHANGED <<logVars, phase, loading, realTimeData, systemHealth, notifVars,
                   chartVars, updateInterval, fetches, toasts, srv, histVars,
                   clicks, now>>
    /\ UNCHANGED integrationVars

\* ------------------------------------------------------------------ polling
\* loadDashboardData up to its await: the flag and the RPC.
LoadDashboardData(initial) ==
    /\ loading' = TRUE
    /\ fetches' = Append(fetches, [status |-> "sent", initial |-> initial,
                                   counters |-> EmptyData, sales |-> NoSales])

\* onWillStart up to the await of the first load.
OnWillStart ==
    /\ phase = "setup"
    /\ phase' = "willStart"
    /\ LoadDashboardData(TRUE)
    /\ UNCHANGED <<logVars, realTimeData, systemHealth, notifVars, chartVars,
                   updateInterval, toasts, wsVars, srv, histVars, clicks, now>>
    /\ UNCHANGED integrationVars

\* The setInterval callback.
IntervalTick ==
    /\ updateInterval
    /\ LoadDashboardData(FALSE)
    /\ UNCHANGED <<logVars, phase, realTimeData, systemHealth, notifVars, chartVars,
                   updateInterval, toasts, wsVars, srv, histVars, clicks, now>>
    /\ UNCHANGED integrationVars

\* The server computes the response of call f from its state of that moment.
ServerReply(f, sales) ==
    /\ f \in 1..Len(fetches)
    /\ fetches[f].status = "sent"
    /\ fetches' = [fetches EXCEPT ![f] = [status |-> "replied",
                                          initial |-> fetches[f].initial,
                                          counters |-> srv, sales |-> sales]]
    /\ UNCHANGED <<logVars, phase, loading, realTimeData, systemHealth, notifVars,
                   chartVars, updateInterval, toasts, wsVars, srv, histVars,
                   clicks, now>>
    /\ UNCHANGED integrationVars

Settled(f) == [status |-> "done", initial |-> fetches[f].initial,
               counters |-> EmptyData, sales |-> NoSales]

\* An initializeRealTimeUpdates that sets no interval.
UnstartedInterval(active) == active

\* this.updateInterval = setInterval(() => this.loadDashboardData(), 30000).
StartedInterval(active) == TRUE

\* The rest of onWillStart once the first load has settled:
\* initializeRealTimeUpdates.  A later load has no continuation.
AfterLoad(f) ==
    IF fetches[f].initial
    THEN /\ phase' = "started"
         /\ updateInterval' = StartedInterval(updateInterval)
         /\ SetupWebSocket
         /\ UNCHANGED reconnectTimers
    ELSE UNCHANGED <<phase, updateInterval, wsVars>>

\* The await of loadDashboardData resumes with the response.
FetchResolve(f) ==
    /\ f \in 1..Len(fetches)
    /\ fetches[f].status = "replied"
    /\ realTimeData' = fetches[f].counters
    /\ UpdateCharts(fetches[f])
    /\ loading' = FALSE
    /\ fetches' = [fetches EXCEPT ![f] = Settled(f)]
    /\ lastSnapshot' = fetches[f].counters
    /\ newestDone' = IF f > newestDone.issue
                     THEN [issue |-> f, counters |-> fetches[f].counters]
                     ELSE newestDone
    /\ evSeen' = [c \in CounterNames |->
                    {k \in evSeen[c] : k > fetches[f].counters[c]}]
    /\ AfterLoad(f)
    /\ UNCHANGED <<logVars, systemHealth, notifVars, toasts, srv, clicks, now>>
    /\ UNCHANGED integrationVars

\* A catch block that reports nothing.
OnRejectSilent(n) == n

\* What the catch block adds to the toasts: one notification.add(...).
OnRejectToasts(n) == n + 1

\* A catch block that empties state.realTimeData.
RejectedDataCleared(d) == EmptyData

\* What the catch block leaves of state.realTimeData: all of it.
RejectedData(d) == d

\* The await of loadDashboardData throws: catch, then finally.
FetchReject(f) ==
    /\ f \in 1..Len(fetches)
    /\ fetches[f].status \in {"sent", "replied"}
    /\ toasts' = OnRejectToasts(toasts)
    /\ realTimeData' = RejectedData(realTimeData)
    /\ loading' = FALSE
    /\ fetches' = [fetches EXCEPT ![f] = [Settled(f) EXCEPT !.status = "failed"]]
    /\ AfterLoad(f)
    /\ UNCHANGED <<logVars, systemHealth, notifVars, chartVars, srv,
                   histVars, clicks, now>>
    /\ UNCHANGED integrationVars

\* ---------------------------------------------------------------- lifecycle
\* onMounted: initializeCharts creates the sales chart when its canvas is in
\* the document; setupEventListeners registers the click listener.
OnMounted(ctx) ==
    /\ phase = "started"
    /\ phase' = "mounted"
    /\ hasChart' = ctx
    /\ labels' = <<>>
    /\ data' = <<>>
    /\ UNCHANGED <<logVars, loading, realTimeData, systemHealth, notifVars, appended,
                   replaced, updateInterval, fetches, toasts, wsVars, srv,
                   histVars, clicks, now>>
    /\ UNCHANGED integrationVars

\* An interval that willUnmount leaves running.
KeptInterval(active) == active

\* if (this.updateInterval) clearInterval(this.updateInterval).
ClearedInterval(active) == FALSE

\* willUnmount: clearInterval, destroy and forget the charts.  The second
\* call finds the interval cleared and no chart left.
WillUnmount ==
    /\ phase \in {"mounted", "unmounted"}
    /\ phase' = "unmounted"
    /\ teardowns' = teardowns + 1
    /\ updateInterval' = ClearedInterval(updateInterval)
    /\ hasChart' = FALSE
    /\ labels' = <<>>
    /\ data' = <<>>
    /\ UNCHANGED <<loading, realTimeData, systemHealth, notifVars, appended,
                   replaced, fetches, toasts, wsVars, srv, histVars, clicks,
                   now, received, handled, uncaught>>
    /\ UNCHANGED integrationVars

\* ----------------------------------------------------------- event handlers
\* A frame {type: ...} without payload: the handler is called with undefined.
Missing == [missing |-> TRUE]

IsMissing(payload) == "missing" \in DOMAIN payload

\* The field names of a payload.
FieldsOf(payload) == IF IsMissing(payload) THEN {} ELSE DOMAIN payload

\* Neither a handler, nor handleRealTimeUpdate, nor ws.onmessage has a try:
\* what a handler throws leaves the task uncaught, and what the handler had
\* assigned before the throw stays assigned.
HandleOrderCreated(orderData) ==
    /\ handled' = Append(handled, "handleOrderCreated")
    /\ realTimeData' = [realTimeData EXCEPT
                          !["order_count"] = Increment(realTimeData["order_count"])]
    /\ IF IsMissing(orderData)
       THEN \* orderData.order_number throws while the argument is built
            /\ uncaught' = uncaught + 1
            /\ UNCHANGED <<notifVars, chartVars>>
       ELSE /\ AddNotification(Notice("success", "New Order"))
            /\ UpdateSalesChart(orderData)
            /\ UNCHANGED uncaught
    /\ UNCHANGED systemHealth

HandleProductUpdated(productData) ==
    /\ handled' = Append(handled, "handleProductUpdated")
    /\ IF IsMissing(productData)
       THEN \* productData.name throws while the argument is built
            /\ uncaught' = uncaught + 1
            /\ UNCHANGED notifVars
       ELSE /\ AddNotification(Notice("info", "Product Updated"))
            /\ UNCHANGED uncaught
    /\ UNCHANGED <<realTimeData, systemHealth, chartVars>>

HandleCustomerSynced(customerData) ==
    /\ handled' = Append(handled, "handleCustomerSynced")
    /\ realTimeData' = [realTimeData EXCEPT
                          !["customer_count"] = Increment(realTimeData["customer_count"])]
    /\ IF IsMissing(customerData)
       THEN \* customerData.name throws while the argument is built
            /\ uncaught' = uncaught + 1
            /\ UNCHANGED notifVars
       ELSE /\ AddNotification(Notice("success", "Customer Synced"))
            /\ UNCHANGED uncaught
    /\ UNCHANGED <<systemHealth, chartVars>>

HandleErrorOccurred(errorData) ==
    /\ handled' = Append(handled, "handleErrorOccurred")
    /\ realTimeData' = [realTimeData EXCEPT
                          !["error_count"] = Increment(realTimeData["error_count"])]
    /\ IF IsMissing(errorData)
       THEN \* errorData.message throws while the argument is built
            /\ uncaught' = uncaught + 1
            /\ UNCHANGED notifVars
       ELSE /\ AddNotification(Notice("danger", "Error Occurred"))
            /\ UNCHANGED uncaught
    /\ UNCHANGED <<systemHealth, chartVars>>

\* An assignment that keeps the metrics the payload does not name:
\* Object.assign(this.state.systemHealth, healthData).
MergedHealth(old, new) ==
    [m \in DOMAIN old \cup DOMAIN new |-> IF m \in DOMAIN new THEN new[m] ELSE old[m]]

\* this.state.systemHealth = healthData.
ReplacedHealth(old, new) == new

\* updateSystemHealthDisplay writes to the document only.
HandleSystemHealthUpdate(healthData) ==
    /\ handled' = Append(handled, "handleSystemHealthUpdate")
    /\ systemHealth' = ReplacedHealth(systemHealth, healthData)
    /\ UNCHANGED <<realTimeData, notifVars, chartVars, uncaught>>

KnownTypes == {"order_created", "product_updated", "customer_synced",
               "error_occurred", "system_health"}

\* A switch with a default branch that treats the message as a product update.
HandleRealTimeUpdateDefault(msg) ==
    CASE msg.type = "order_created" -> HandleOrderCreated(msg.payload)
      [] msg.type = "product_updated" -> HandleProductUpdated(msg.payload)
      [] msg.type = "customer_synced" -> HandleCustomerSynced(msg.payload)
      [] msg.type = "error_occurred" -> HandleErrorOccurred(msg.payload)
      [] msg.type = "system_health" -> HandleSystemHealthUpdate(msg.payload)
      [] OTHER -> HandleProductUpdated(msg.payload)

\* A switch that drops a message of the type of the message before it.
HandleRealTimeUpdateCoalescing(msg) ==
    CASE Len(received) > 0 /\ received[Len(received)].type = msg.type ->
            UNCHANGED <<realTimeData, systemHealth, notifVars, chartVars,
                        handled, uncaught>>
      [] msg.type = "order_created" -> HandleOrderCreated(msg.payload)
      [] msg.type = "product_updated" -> HandleProductUpdated(msg.payload)
      [] msg.type = "customer_synced" -> HandleCustomerSynced(msg.payload)
      [] msg.type = "error_occurred" -> HandleErrorOccurred(msg.payload)
      [] msg.type = "system_health" -> HandleSystemHealthUpdate(msg.payload)
      [] OTHER -> UNCHANGED <<realTimeData, systemHealth, notifVars, chartVars,
                              handled, uncaught>>

\* The switch of handleRealTimeUpdate; it has no default branch.
HandleRealTimeUpdate(msg) ==
    CASE msg.type = "order_created" -> HandleOrderCreated(msg.payload)
      [] msg.type = "product_updated" -> HandleProductUpdated(msg.payload)
      [] msg.type = "customer_synced" -> HandleCustomerSynced(msg.payload)
      [] msg.type = "error_occurred" -> HandleErrorOccurred(msg.payload)
      [] msg.type = "system_health" -> HandleSystemHealthUpdate(msg.payload)
      [] OTHER -> UNCHANGED <<realTimeData, systemHealth, notifVars, chartVars,
                              handled, uncaught>>

\* The server counter an event kind reports a change of, if any.
CounterOf(type) ==
    CASE type = "order_created" -> {"order_count"}
      [] type = "customer_synced" -> {"customer_count"}
      [] type = "error_occurred" -> {"error_count"}
      [] OTHER -> {}

\* Something happens on the server, which pushes it over the open socket s:
\* ws.onmessage parses the frame and dispatches it.
WsMessage(s, msg) ==
    /\ s \in 1..Len(sockets)
    /\ sockets[s] = "open"
    /\ received' = Append(received, [type |-> msg.type,
                                    payload |-> ~IsMissing(msg.payload),
                                    fields |-> FieldsOf(msg.payload)])
    /\ srv' = [c \in CounterNames |->
                 IF c \in CounterOf(msg.type) THEN srv[c] + 1 ELSE srv[c]]
    /\ evSeen' = [c \in CounterNames |->
                    IF c \in CounterOf(msg.type) /\ IsNumber(realTimeData[c])
                    THEN evSeen[c] \cup {srv[c] + 1} ELSE evSeen[c]]
    /\ HandleRealTimeUpdate(msg)
    /\ UNCHANGED <<phase, loading, updateInterval, fetches, toasts, wsVars,
                   lastSnapshot, newestDone, clicks, now, teardowns>>
    /\ UNCHANGED integrationVars

\* A frame that is not JSON arrives over the open socket s: JSON.parse throws
\* in ws.onmessage, before handleRealTimeUpdate is reached.
WsBadFrame(s) ==
    /\ s \in 1..Len(sockets)
    /\ sockets[s] = "open"
    /\ received' = Append(received, [type |-> "(unparseable)", payload |-> FALSE,
                                    fields |-> {}])
    /\ uncaught' = uncaught + 1
    /\ UNCHANGED <<phase, loading, realTimeData, systemHealth, notifVars,
                   chartVars, updateInterval, fetches, toasts, wsVars, srv,
                   histVars, clicks, now, handled, teardowns>>
    /\ UNCHANGED integrationVars

\* Something happens on the server while no socket is open: nobody is told.
ServerChange(c) ==
    /\ \A s \in 1..Len(sockets) : sockets[s] # "open"
    /\ srv' = [srv EXCEPT ![c] = srv[c] + 1]
    /\ UNCHANGED <<logVars, phase, loading, realTimeData, systemHealth, notifVars,
                   chartVars, updateInterval, fetches, toasts, wsVars,
                   histVars, clicks, now>>
    /\ UNCHANGED integrationVars

SrvTotal == srv["order_count"] + srv["customer_count"] + srv["error_count"]

OrderMsg(amount) == [type |-> "order_created", payload |-> [amount |-> amount]]
ProductMsg == [type |-> "product_updated", payload |-> [name |-> "p"]]
CustomerMsg == [type |-> "customer_synced", payload |-> [name |-> "c"]]
ErrorMsg == [type |-> "error_occurred", payload |-> [message |-> "e"]]
HealthMsg(h) == [type |-> "system_health", payload |-> h]
UnknownMsg == [type |-> "unknown_kind", payload |-> [name |-> "u"]]
NoTypeMsg == [type |-> "(undefined)", payload |-> Missing]
NoPayloadMsg(type) == [type |-> type, payload |-> Missing]

\* ------------------------------------------------- the notification list
\* The component starts, a socket opens, product_updated events arrive in
\* bursts, expiry timers fire, close buttons are clicked.
NextN ==
    \/ OnWillStart
    \/ \E f \in 1..MaxFetch : ServerReply(f, NoSales)
    \/ \E f \in 1..MaxFetch : FetchResolve(f)
    \/ OnMounted(TRUE)
    \/ \E s \in 1..MaxSockets : WsOpen(s)
    \/ \E s \in 1..MaxSockets : nPushed < MaxPush /\ WsMessage(s, ProductMsg)
    \/ ExpiryTimerFires
    \/ \E id \in 0..MaxClock : clicks < MaxClicks /\ CloseClick(id)
    \/ now < MaxClock /\ Tick

SpecN == Init /\ [][NextN]_vars

\* The objects of a list.
Objs(list) == {list[i].obj : i \in 1..Len(list)}

\* C1: the notification list never holds more than 10 entries; right after a
\* push the entry just created is first, and every entry the push dropped is
\* older than every entry it kept.
C1_BoundedNewestFirst ==
    /\ Len(notifications) <= MaxNotifications
    /\ [][/\ Len(notifications') <= MaxNotifications
          /\ nPushed' # nPushed =>
                /\ notifications' # <<>>
                /\ Head(notifications').obj = nPushed'
                /\ \A d \in Objs(notifications) \ Objs(notifications') :
                      \A k \in Objs(notifications) \cap Objs(notifications') : d < k
         ]_vars

\* An overflow has happened: eleven pushes, the first object is gone, the
\* last one leads.
C1_Witness ==
    /\ nPushed > MaxNotifications
    /\ Len(notifications) = MaxNotifications
    /\ Head(notifications).obj = nPushed
    /\ 1 \notin Objs(notifications)
    /\ 2 \in Objs(notifications)

\* The objects whose expiry timer has fired.
Expired == {o \in 1..nPushed : \A i \in 1..Len(expiryTimers) : expiryTimers[i].obj # o}

\* C2: a notification whose expiry timer has fired is no longer in the list.
C2_ExpiredAbsent == Objs(notifications) \cap Expired = {}

\* C3: the ids of the list are pairwise different and strictly increase with
\* the order of the pushes (the list is newest first).
C3_UniqueIncreasingIds ==
    \A i, j \in 1..Len(notifications) :
        i < j => notifications[i].id > notifications[j].id

\* ------------------------------------------------------- the sales series
\* What get_dashboard_data may carry as sales_chart_data.
SnapSales == {NoSales, SalesOf(2), SalesOf(MaxSnapLen)}

\* The component starts and mounts, polls replace the series, order_created
\* events append to it; the n-th order of the server has amount n.
NextS ==
    \/ OnWillStart
    \/ \E f \in 1..MaxFetch, sales \in SnapSales : ServerReply(f, sales)
    \/ \E f \in 1..MaxFetch : FetchResolve(f)
    \/ \E ctx \in BOOLEAN : OnMounted(ctx)
    \/ \E s \in 1..MaxSockets : WsOpen(s)
    \/ \E s \in 1..MaxSockets :
          /\ srv["order_count"] < MaxEvents
          /\ WsMessage(s, OrderMsg(srv["order_count"] + 1))
    \/ Len(fetches) < MaxFetch /\ IntervalTick

SpecS == Init /\ [][NextS]_vars

\* The component starts and mounts and a long run of order_created events
\* arrives: the series is only ever appended to.
NextA ==
    \/ OnWillStart
    \/ \E f \in 1..MaxFetch, sales \in SnapSales : ServerReply(f, sales)
    \/ \E f \in 1..MaxFetch : FetchResolve(f)
    \/ \E ctx \in BOOLEAN : OnMounted(ctx)
    \/ \E s \in 1..MaxSockets : WsOpen(s)
    \/ \E s \in 1..MaxSockets :
          /\ srv["order_count"] < MaxAppend
          /\ WsMessage(s, OrderMsg(srv["order_count"] + 1))
    \/ now < MaxClock /\ Tick

SpecA == Init /\ [][NextA]_vars

\* The last n elements of a sequence.
LastN(seq, n) == IF Len(seq) > n THEN SubSeq(seq, Len(seq) - n + 1, Len(seq)) ELSE seq

\* C6: the sales series never holds more than 20 points.
C6_SeriesBounded == Len(labels) <= MaxPoints /\ Len(data) <= MaxPoints

\* C7: as long as only appends have touched the series of the chart, it holds
\* the min(n, 20) most recently appended amounts in the order of the appends.
C7_WindowOfAppends ==
    (hasChart /\ ~replaced) =>
        /\ data = LastN(appended, MaxPoints)
        /\ Len(data) <= MaxPoints
        /\ Len(labels) = Len(data)

\* More than 20 appends have happened and the oldest one has been evicted.
C7_Witness ==
    /\ hasChart
    /\ ~replaced
    /\ Len(appended) > MaxPoints
    /\ Len(data) = MaxPoints
    /\ data[MaxPoints] = appended[Len(appended)]
    /\ data[1] # appended[1]

\* ------------------------------------------------------ the push channel
\* The component starts, mounts and unmounts while the channel opens, fails
\* and closes and the reconnect timer fires; polls go on beside it.
NextW ==
    \/ OnWillStart
    \/ \E f \in 1..MaxFetch : ServerReply(f, NoSales)
    \/ \E f \in 1..MaxFetch : FetchResolve(f)
    \/ \E f \in 1..MaxFetch : FetchReject(f)
    \/ Len(fetches) < MaxFetch /\ IntervalTick
    \/ OnMounted(TRUE)
    \/ teardowns < MaxTeardowns /\ WillUnmount
    \/ \E s \in 1..MaxSockets : WsOpen(s)
    \/ \E s \in 1..MaxSockets : WsError(s)
    \/ \E s \in 1..MaxSockets : WsClose(s)
    \/ Len(sockets) < MaxSockets /\ ReconnectTimerFires

SpecW == Init /\ [][NextW]_vars

Closed == {s \in 1..Len(sockets) : sockets[s] = "closed"}

\* C8: after teardown no reconnect timer is pending and no channel is left
\* connecting or open.
C8_TeardownReleasesChannel ==
    phase = "unmounted" => reconnectTimers = 0 /\ Closed = 1..Len(sockets)

\* C9: at most one reconnect timer is pending.
C9_OneReconnectTimer == reconnectTimers <= 1

\* The second retry is pending: two channels have come and gone.
C9_Witness ==
    /\ reconnectTimers = 1
    /\ Len(sockets) >= 2
    /\ Closed = 1..Len(sockets)

\* C10 as claimed: once a channel has reported an error, with or without a
\* close event after it, a retry is pending or has been made.
C10_RetryOnError ==
    \A s \in 1..Len(sockets) :
        (sockets[s] \in {"failing", "closed"} /\ phase # "unmounted")
            => (reconnectTimers >= 1 \/ Len(sockets) > s)

\* C10 as amended: every close event schedules exactly one reconnect timer,
\* every timer that fires makes exactly one new connect attempt and nothing
\* else makes one, and an error event by itself schedules nothing: the retry
\* comes with the close event that follows the error.
C10_RetryOnClose ==
    /\ [](sockets # <<>> => Len(sockets) + reconnectTimers = 1 + Cardinality(Closed))
    /\ [][/\ \A s \in 1..Len(sockets) :
                (sockets[s] # "closed" /\ sockets'[s] = "closed")
                    => reconnectTimers' = reconnectTimers + 1
          /\ \A s \in 1..Len(sockets) :
                (sockets[s] # "failing" /\ sockets'[s] = "failing")
                    => (reconnectTimers' = reconnectTimers /\ Len(sockets') = Len(sockets))
          /\ reconnectTimers' < reconnectTimers =>
                /\ reconnectTimers' = reconnectTimers - 1
                /\ Len(sockets') = Len(sockets) + 1
                /\ sockets'[Len(sockets')] = "connecting"
          /\ (sockets # <<>> /\ Len(sockets') > Len(sockets))
                => reconnectTimers' = reconnectTimers - 1
         ]_vars

\* The first channel has closed and has been retried; the retry has reported
\* an error and its close event is still to come, so that no timer is pending.
C10_Witness ==
    /\ Len(sockets) = 2
    /\ sockets[1] = "closed"
    /\ sockets[2] = "failing"
    /\ reconnectTimers = 0
    /\ phase # "unmounted"

\* ------------------------------------------------------ polls and events
\* The component starts, the interval issues further polls, the server
\* answers them or they fail, and counter events arrive over the socket.
NextP ==
    \/ OnWillStart
    \/ \E f \in 1..MaxFetch : ServerReply(f, NoSales)
    \/ \E f \in 1..MaxFetch : FetchResolve(f)
    \/ \E f \in 1..MaxFetch : FetchReject(f)
    \/ Len(fetches) < MaxFetch /\ IntervalTick
    \/ OnMounted(TRUE)
    \/ \E s \in 1..MaxSockets : WsOpen(s)
    \/ \E s \in 1..MaxSockets, msg \in {OrderMsg(42), CustomerMsg, ErrorMsg} :
          SrvTotal < MaxEvents /\ WsMessage(s, msg)
    \/ \E c \in CounterNames : SrvTotal < MaxEvents /\ ServerChange(c)

SpecP == Init /\ [][NextP]_vars

\* The get_dashboard_data calls that have not settled.
InFlight == {f \in 1..Len(fetches) : fetches[f].status \in {"sent", "replied"}}

\* C4: at most one poll request is in flight.
C4_OneFetchInFlight == Cardinality(InFlight) <= 1

\* C5: every counter stands at least at the value of the snapshot applied
\* last plus the events handled that this snapshot does not contain.
C5_EventsSurviveSnapshot ==
    \A c \in CounterNames :
        (IsNumber(realTimeData[c]) /\ IsNumber(lastSnapshot[c]))
            => realTimeData[c] >= lastSnapshot[c] + Cardinality(evSeen[c])

\* ------------------------------------------------------------ the dispatch
Healths == {[cpu |-> 95], [cpu |-> 60, memory |-> 80]}

\* The frames the channel may carry: the five kinds, order_created without a
\* payload, an unknown kind and an object without type.
DispatchMsgs ==
    {OrderMsg(42), NoPayloadMsg("order_created"), ProductMsg, CustomerMsg,
     ErrorMsg, UnknownMsg, NoTypeMsg} \cup {HealthMsg(h) : h \in Healths}

\* The component starts (its first load succeeds or fails) and mounts (with
\* or without a sales canvas) while frames of every sort arrive.
NextD ==
    \/ OnWillStart
    \/ \E f \in 1..MaxFetch : ServerReply(f, NoSales)
    \/ \E f \in 1..MaxFetch : FetchResolve(f)
    \/ \E f \in 1..MaxFetch : FetchReject(f)
    \/ \E ctx \in BOOLEAN : OnMounted(ctx)
    \/ \E s \in 1..MaxSockets : WsOpen(s)
    \/ \E s \in 1..MaxSockets, msg \in DispatchMsgs :
          Len(received) < MaxFrames /\ WsMessage(s, msg)
    \/ \E s \in 1..MaxSockets : Len(received) < MaxFrames /\ WsBadFrame(s)

SpecD == Init /\ [][NextD]_vars

\* The step hands a new frame to ws.onmessage.
FrameArrives == Len(received') = Len(received) + 1

LastFrame == received'[Len(received')]

\* C11: when a handler is called without a payload and throws, no exception
\* leaves the task and the counters, the notification list and the sales
\* series are what they were before the event.
C11_HandlerErrorContained ==
    [][(FrameArrives /\ Len(handled') > Len(handled) /\ ~LastFrame.payload)
          => /\ uncaught' = uncaught
             /\ UNCHANGED <<realTimeData, notifications, labels, data>>
      ]_vars

\* C12: a frame that does not parse, or parses to an object without type,
\* raises nothing and changes no counter, notification or series.
C12_MalformedDiscarded ==
    [][(FrameArrives /\ LastFrame.type \in {"(unparseable)", "(undefined)"})
          => /\ uncaught' = uncaught
             /\ UNCHANGED <<realTimeData, systemHealth, notifications, labels, data>>
      ]_vars

\* C13: a message of a type outside the five known ones changes nothing of
\* the dashboard state, calls no handler and raises nothing.
C13_UnknownTypeIgnored ==
    [][(FrameArrives /\ LastFrame.type \notin KnownTypes \cup {"(unparseable)"})
          => UNCHANGED <<realTimeData, systemHealth, notifVars, chartVars,
                         loading, handled, uncaught>>
      ]_vars

\* An unknown kind has arrived after an event that left a notification.
C13_Witness ==
    /\ Len(received) = 2
    /\ received[1].type = "customer_synced"
    /\ received[2].type = "unknown_kind"
    /\ Len(notifications) = 1
    /\ handled = <<"handleCustomerSynced">>

\* C16: an order_created with amount 42 adds exactly 1 to order_count,
\* appends exactly one point of value 42 to the end of the sales series and
\* puts exactly one notification of type success in front of the list.
C16_OrderCreatedEffect ==
    [][(FrameArrives /\ LastFrame.type = "order_created" /\ LastFrame.payload)
          => /\ IsNumber(realTimeData'["order_count"])
             /\ realTimeData'["order_count"] = realTimeData["order_count"] + 1
             /\ Len(appended') = Len(appended) + 1
             /\ data' # <<>>
             /\ data'[Len(data')] = 42
             /\ nPushed' = nPushed + 1
             /\ Head(notifications').type = "success"
      ]_vars

HandlerOf(type) ==
    CASE type = "order_created" -> "handleOrderCreated"
      [] type = "product_updated" -> "handleProductUpdated"
      [] type = "customer_synced" -> "handleCustomerSynced"
      [] type = "error_occurred" -> "handleErrorOccurred"
      [] type = "system_health" -> "handleSystemHealthUpdate"

IsKnown(frame) == frame.type \in KnownTypes

\* C17: the handlers called so far are, one for one and in the order of
\* arrival, the handlers of the frames of a known type received so far.
C17_DispatchInOrder ==
    LET known == SelectSeq(received, IsKnown) IN
    /\ Len(handled) = Len(known)
    /\ \A i \in 1..Len(known) : handled[i] = HandlerOf(known[i].type)

\* Three events of three kinds have been dispatched.
C17_Witness ==
    handled = <<"handleOrderCreated", "handleProductUpdated", "handleCustomerSynced">>

\* ------------------------------------------------------------ failed polls
\* The component starts and mounts and the interval keeps polling while the
\* calls succeed or fail.
NextF ==
    \/ OnWillStart
    \/ \E f \in 1..MaxPolls : ServerReply(f, NoSales)
    \/ \E f \in 1..MaxPolls : FetchResolve(f)
    \/ \E f \in 1..MaxPolls : FetchReject(f)
    \/ Len(fetches) < MaxPolls /\ IntervalTick
    \/ OnMounted(TRUE)

SpecF == Init /\ [][NextF]_vars

\* The get_dashboard_data calls that were rejected.
Failed == {f \in 1..Len(fetches) : fetches[f].status = "failed"}

\* C14: once the first load has settled, state.loading is false.
C14_LoadingOnlyInitially == phase \notin {"setup", "willStart"} => ~loading

\* C15: every failed call has produced exactly one error notification, and
\* whatever has failed the interval is active and its next call can be made.
C15_PollingSurvivesFailures ==
    /\ toasts = Cardinality(Failed)
    /\ phase \in {"started", "mounted"} => (updateInterval /\ ENABLED IntervalTick)

\* The first three calls have failed and the fourth has been issued.
C15_Witness ==
    /\ Len(fetches) = 4
    /\ Failed = {1, 2, 3}
    /\ fetches[4].status = "sent"
    /\ toasts = 3

\* C18: after teardown the interval is cleared and no call is issued any
\* more; a further teardown changes nothing and raises nothing.
C18_TeardownStopsPolling ==
    /\ [](phase = "unmounted" => ~updateInterval)
    /\ [][phase = "unmounted" =>
            /\ Len(fetches') = Len(fetches)
            /\ teardowns' # teardowns =>
                  UNCHANGED <<phase, loading, realTimeData, systemHealth,
                              notifVars, chartVars, updateInterval, fetches,
                              toasts, wsVars, srv, histVars, clicks, now,
                              received, handled, uncaught>>
         ]_vars

\* The component has polled on its interval and has been torn down twice.
C18_Witness ==
    /\ phase = "unmounted"
    /\ teardowns = 2
    /\ Len(fetches) >= 2

\* C19: a rejected call leaves the counters, the health record, the
\* notification list and the sales series as they were, and ends neither the
\* interval nor a socket.
C19_FailedPollKeepsData ==
    [][(\E f \in 1..Len(fetches) :
            fetches[f].status # "failed" /\ fetches'[f].status = "failed")
          => /\ UNCHANGED <<realTimeData, systemHealth, notifications, labels, data>>
             /\ updateInterval => updateInterval'
             /\ \A s \in 1..Len(sockets) : sockets'[s] = sockets[s]
      ]_vars

\* An interval call has failed while the dashboard shows a counted order and
\* a point of the series.
C19_Witness ==
    /\ Len(fetches) >= 2
    /\ fetches[2].status = "failed"
    /\ realTimeData["order_count"] >= 1
    /\ Len(data) >= 1
    /\ updateInterval

\* C20: dismissing an id twice gives the list of dismissing it once, an
\* absent id leaves the list as it is, and a dismissal takes away nothing
\* but entries of that id.
C20_DismissIdempotent ==
    \A id \in 0..MaxClock :
        LET once == RemoveNotification(notifications, id) IN
        /\ RemoveNotification(once, id) = once
        /\ (\A i \in 1..Len(notifications) : notifications[i].id # id)
              => once = notifications
        /\ SelectSeq(once, LAMBDA n : n.id # id)
              = SelectSeq(notifications, LAMBDA n : n.id # id)

\* ------------------------------------------------- the interval, with time
\* The browser fires an interval that is set again and again.
SpecFL == SpecF /\ WF_vars(Len(fetches) < MaxPolls /\ IntervalTick)

\* C21: the start issues the first call at once; from the moment that call
\* has settled the interval is set and stays set, each of its ticks issues
\* exactly one further call, and the ticks keep coming.
C21_PollsEveryInterval ==
    /\ [](phase # "setup" => (Len(fetches) >= 1 /\ fetches[1].initial))
    /\ [](phase \in {"started", "mounted"} => updateInterval)
    /\ [][Len(fetches') # Len(fetches) =>
            /\ Len(fetches') = Len(fetches) + 1
            /\ fetches'[Len(fetches')].status = "sent"
            /\ fetches # <<>> => (updateInterval /\ ~fetches'[Len(fetches')].initial)
         ]_vars
    /\ [](updateInterval => <>(Len(fetches) = MaxPolls))

\* The first call has been followed by two calls of the interval.
C21_Witness ==
    /\ Len(fetches) >= 3
    /\ fetches[1].initial
    /\ ~fetches[2].initial
    /\ ~fetches[3].initial
    /\ updateInterval

\* ------------------------------------------------------- effects of events
\* C22: the step that applies a snapshot replaces the counters and, where a
\* chart and a series are there, the series with them; the step in which an
\* event changes a counter also pushes the event's notification and, for an
\* order on an existing chart, appends its point.
C22_NoTornUpdate ==
    [][/\ \A f \in 1..Len(fetches) :
            (fetches[f].status = "replied" /\ fetches'[f].status = "done") =>
                /\ realTimeData' = fetches[f].counters
                /\ (hasChart /\ fetches[f].sales.present) =>
                      (labels' = fetches[f].sales.labels /\ data' = fetches[f].sales.values)
       /\ (Len(handled') > Len(handled) /\ realTimeData' # realTimeData) =>
            /\ nPushed' = nPushed + 1
            /\ (handled'[Len(handled')] = "handleOrderCreated" /\ hasChart)
                  => Len(appended') = Len(appended) + 1
      ]_vars

\* C23: an error_occurred event adds exactly 1 to error_count and puts one
\* notification of type danger in front of the list; order_count,
\* customer_count, systemHealth and the sales series stay as they were.
C23_ErrorOccurredEffect ==
    [][(FrameArrives /\ LastFrame.type = "error_occurred" /\ LastFrame.payload)
          => /\ IsNumber(realTimeData'["error_count"])
             /\ realTimeData'["error_count"] = realTimeData["error_count"] + 1
             /\ realTimeData'["order_count"] = realTimeData["order_count"]
             /\ realTimeData'["customer_count"] = realTimeData["customer_count"]
             /\ nPushed' = nPushed + 1
             /\ Head(notifications').type = "danger"
             /\ Head(notifications').title = "Error Occurred"
             /\ UNCHANGED <<systemHealth, labels, data>>
      ]_vars

\* C24: a system_health event makes its payload the health record, with no
\* metric of the record before it left, and changes no counter, notification
\* or series.
C24_HealthReplaced ==
    [][\A s \in 1..Len(sockets), h \in Healths :
          WsMessage(s, HealthMsg(h))
              => /\ systemHealth' = h
                 /\ DOMAIN systemHealth' = DOMAIN h
                 /\ UNCHANGED <<realTimeData, notifVars, chartVars>>
      ]_vars

\* A record of one metric has replaced a record of two.
C24_Witness ==
    /\ Len(received) = 2
    /\ received[1].type = "system_health"
    /\ received[1].fields = {"cpu", "memory"}
    /\ received[2].type = "system_health"
    /\ received[2].fields = {"cpu"}
    /\ systemHealth = [cpu |-> 95]

\* ------------------------------------------------------ one channel at most
\* The WebSocket objects that have not closed.
Live == {s \in 1..Len(sockets) : sockets[s] # "closed"}

\* C26: at most one WebSocket is connecting or open, and a WebSocket is
\* created only when every WebSocket before it has closed.
C26_OneSocket ==
    /\ [](Cardinality(Live) <= 1)
    /\ [][Len(sockets') > Len(sockets) => Live = {}]_vars

\* Two channels have closed one after the other and the third is open.
C26_Witness ==
    /\ Len(sockets) = 3
    /\ sockets[1] = "closed"
    /\ sockets[2] = "closed"
    /\ sockets[3] = "open"

\* C27: the labels and the values of the sales chart are equally many.
C27_LabelsMatchData == Len(labels) = Len(data)

\* A snapshot of 20 points or more has replaced the series and an order has
\* been appended to it, evicting the first point.
C27_Witness ==
    /\ hasChart
    /\ replaced
    /\ Len(data) >= MaxPoints
    /\ appended # <<>>
    /\ data[Len(data)] = appended[Len(appended)]
    /\ labels[1] # 1

\* ------------------------------------------------- overlapping responses
\* The get_dashboard_data calls that resolved.
Done == {f \in 1..Len(fetches) : fetches[f].status = "done"}

\* C25: once no call is outstanding, the snapshot applied last is the
\* response of the latest issued call that resolved.
C25_LatestIssuedWins ==
    (InFlight = {} /\ Done # {}) => lastSnapshot = newestDone.counters

\* ------------------------------------------- AbstractDashboardComponent
\* updateRawData: the flag, then fetchData() or fetchDefaultData() with its
\* .then and .finally still to run.
UpdateRawData ==
    /\ isLoading' = TRUE
    /\ panelFetches' = Append(panelFetches, "sent")

\* IntegrationDashboard.updateComponents: the panel gets a new updateKey.
UpdateComponents ==
    /\ updateKey < MaxKey
    /\ updateKey' = updateKey + 1
    /\ UNCHANGED <<isLoading, rawData, panelFetches, effectKey, menuVars, dashboardVars>>

\* The effect of _triggerUpdate: it runs after the first mount and after a
\* patch in which props.updateKey is not what it was at its last run.
TriggerUpdate ==
    /\ effectKey # updateKey
    /\ effectKey' = updateKey
    /\ UpdateRawData
    /\ UNCHANGED <<rawData, updateKey, menuVars, dashboardVars>>

\* The promise of fetch f fulfils: .then stores the data, .finally resets
\* the flag.
PanelResolve(f) ==
    /\ f \in 1..Len(panelFetches)
    /\ panelFetches[f] = "sent"
    /\ panelFetches' = [panelFetches EXCEPT ![f] = "done"]
    /\ rawData' = f
    /\ isLoading' = FALSE
    /\ UNCHANGED <<updateKey, effectKey, menuVars, dashboardVars>>

\* The promise of fetch f rejects: .then is skipped, .finally resets the flag.
PanelReject(f) ==
    /\ f \in 1..Len(panelFetches)
    /\ panelFetches[f] = "sent"
    /\ panelFetches' = [panelFetches EXCEPT ![f] = "failed"]
    /\ isLoading' = FALSE
    /\ UNCHANGED <<rawData, updateKey, effectKey, menuVars, dashboardVars>>

\* ------------------------------------------------ IntegrationStatusMenu
\* A render: the onWillRender callback runs up to its await.
MenuRender ==
    /\ renders' = renders + 1
    /\ menuCalls' = IF ~isLoaded THEN Append(menuCalls, "sent") ELSE menuCalls
    /\ UNCHANGED <<isLoaded, panelVars, dashboardVars>>

\* The await of call c resumes with the data: the counters, then isLoaded.
MenuResolve(c) ==
    /\ c \in 1..Len(menuCalls)
    /\ menuCalls[c] = "sent"
    /\ menuCalls' = [menuCalls EXCEPT ![c] = "done"]
    /\ isLoaded' = TRUE
    /\ UNCHANGED <<renders, panelVars, dashboardVars>>

\* The await of call c throws: the callback ends there.
MenuReject(c) ==
    /\ c \in 1..Len(menuCalls)
    /\ menuCalls[c] = "sent"
    /\ menuCalls' = [menuCalls EXCEPT ![c] = "failed"]
    /\ UNCHANGED <<isLoaded, renders, panelVars, dashboardVars>>

\* A panel of the integration dashboard is refreshed and the systray menu is
\* rendered while their calls are answered in any order.
NextI ==
    \/ UpdateComponents
    \/ TriggerUpdate
    \/ \E f \in 1..(MaxKey + 2) : PanelResolve(f)
    \/ \E f \in 1..(MaxKey + 2) : PanelReject(f)
    \/ renders < MaxRenders /\ MenuRender
    \/ \E c \in 1..MaxRenders : MenuResolve(c)
    \/ \E c \in 1..MaxRenders : MenuReject(c)

SpecI == Init /\ [][NextI]_vars

\* The fetches of updateRawData that have not settled.
Outstanding == {f \in 1..Len(panelFetches) : panelFetches[f] = "sent"}

\* The fetches of updateRawData that fulfilled.
Fulfilled == {f \in 1..Len(panelFetches) : panelFetches[f] = "done"}

\* C28: isLoading is true exactly while a fetch of updateRawData is
\* outstanding.
C28_LoadingWhileOutstanding == isLoading <=> Outstanding # {}

\* C29: once every fetch has settled, rawData is the response of the latest
\* started fetch that fulfilled.
C29_LatestStartedWins ==
    (Outstanding = {} /\ Fulfilled # {}) =>
        \A f \in Fulfilled : rawData >= f

\* C30: onWillRender calls systray_get_integrations at most once, and
\* isLoaded never goes back to false.
C30_LoadedOnce ==
    /\ [](Len(menuCalls) <= 1)
    /\ [][isLoaded => isLoaded']_vars

====
